---- MODULE Spec2Model ----
(***************************************************************************)
(* State-machine model of src/src/references.js: the Refs session class    *)
(* and the citationFactory closure it wraps (cited-id tracking, engine     *)
(* cache, bibliography renderer, frame scheduler, disposal).               *)
(*                                                                         *)
(* The CSL engine (citeproc) and the importer (citation-js) are external:  *)
(* an engine is represented by the item ids it was built over, an engine   *)
(* call may throw (input "fault"), and a lookup of an id that is not in    *)
(* the reference map throws.                                               *)
(***************************************************************************)
EXTENDS Integers, Sequences, FiniteSets, TLC

\* ---------------------------------------------------------------- bounds
\* Spec: cite() calls that return a cluster anchor
MaxClusters == 1
\* Spec: bibliography() calls
MaxContainers == 1
\* Spec: citation items per cite() call
MaxItems == 1
\* SpecDispose: cite() calls that return a cluster anchor
DisposeMaxClusters == 2
\* SpecDispose: bibliography() calls
DisposeMaxContainers == 2
\* SpecKey: cite() calls that return a cluster anchor
KeyMaxClusters == 3
\* SpecKey: citation items per cite() call
KeyMaxItems == 2
\* SpecRefs: entries of the raw reference list
MaxRefs == 3
\* SpecCite: arguments per call of a cite entry point
CiteMaxParams == 2
\* SpecCite: cite calls that return a cluster anchor
CiteMaxClusters == 2
\* SpecSessions: anchors returned by the cite calls of the two sessions
SessionsMaxClusters == 3
\* SpecSweep: cite() calls that return a cluster anchor
SweepMaxClusters == 2
\* SpecFault: cite() calls that return a cluster anchor
FaultMaxClusters == 2





Ids == {"a", "b"}
KeyIds == {"a", "b", "c"}

\* the reference lists a session of Spec is created with
RefLists == {<<>>, <<"a">>, <<"b", "a">>}

\* ---------------------------------------------------------------- helpers
Range(s) == {s[i] : i \in 1..Len(s)}

SeqsUpTo(S, n) == UNION {[1..k -> S] : k \in 0..n}

NoDup(s) == \A i, j \in 1..Len(s) : i # j => s[i] # s[j]

\* UTF-16 code unit of a one-character id: the order used by
\* Array.prototype.sort() without a comparator
CodeUnit(id) ==
    CASE id = "a" -> 97
      [] id = "B" -> 66
      [] id = "b" -> 98
      [] id = "c" -> 99
      [] OTHER -> 0

\* Set.prototype.add on an insertion-ordered Set
SetAdd(set, x) == IF x \in Range(set) THEN set ELSE Append(set, x)

\* mutant of SetAddAll: the set holds the ids of the latest call only
SetAddAllResets(set, xs) == xs

RECURSIVE SetAddAll(_, _)
SetAddAll(set, xs) ==
    IF Len(xs) = 0 THEN set ELSE SetAddAll(SetAdd(set, Head(xs)), Tail(xs))

\* insertion of x into an ascending sequence (stable: after equal elements)
RECURSIVE InsertSorted(_, _)
InsertSorted(s, x) ==
    IF Len(s) = 0 THEN <<x>>
    ELSE IF CodeUnit(x) < CodeUnit(Head(s)) THEN <<x>> \o s
    ELSE <<Head(s)>> \o InsertSorted(Tail(s), x)

\* Array.prototype.sort() with the default comparator
RECURSIVE SortIds(_)
SortIds(s) ==
    IF Len(s) = 0 THEN <<>> ELSE InsertSorted(SortIds(SubSeq(s, 1, Len(s) - 1)), s[Len(s)])

\* Array.prototype.join('|')
RECURSIVE JoinBar(_)
JoinBar(s) ==
    IF Len(s) = 0 THEN ""
    ELSE IF Len(s) = 1 THEN s[1]
    ELSE s[1] \o "|" \o JoinBar(Tail(s))

\* mutant of CitedKey: the ids joined in arrival order
CitedKeyUnsorted(cited) == JoinBar(cited)

\* the cache key of lines 407-408
CitedKey(cited) == JoinBar(SortIds(cited))

\* the orders in which the ids of a set can have been added to a Set
Orders(S) == {p \in [1..Cardinality(S) -> S] : Range(p) = S}

InsertAt(s, pos, x) == SubSeq(s, 1, pos - 1) \o <<x>> \o SubSeq(s, pos, Len(s))

RECURSIVE RemoveElem(_, _)
RemoveElem(s, x) ==
    IF Len(s) = 0 THEN <<>>
    ELSE IF Head(s) = x THEN RemoveElem(Tail(s), x)
    ELSE <<Head(s)>> \o RemoveElem(Tail(s), x)

\* ---------------------------------------------------------------- state
VARIABLES
    refList,                 \* entries of the raw reference list, in input order
    linkCitations,           \* the linkCitations option of Refs.create
    createPromise,           \* Refs.create: the await it is suspended at, or how
                             \* its promise has settled
    refsReady,               \* the Refs constructor has run
    refObject,               \* Refs.refObject: names of the reference table rows
    referenceIds,            \* citationFactory: Array.from(referenceMap.keys())
    citedIds,                \* citationFactory: citedIds (insertion-ordered Set)
    lastCitedKey,            \* citationFactory: lastCitedKey
    cachedOfflineEngine,     \* citationFactory: cachedOfflineEngine
    cachedShowAllEngine,     \* citationFactory: cachedShowAllEngine
    clickListener,           \* the click-to-scroll listener is on the document
    clusters,                \* cluster anchors returned by cite, in creation order
    doc,                     \* cluster anchors attached to the document, in document order
    containers,              \* bibliography containers, in creation order
    liveContainers,          \* Refs._bibliographyContainers
    disposeMark,             \* number of containers at the first Refs.dispose(), -1 before
    step                     \* what the step just taken did, for update() and the two
                             \* dispose(): the operation and its container, the markup
                             \* rendered, whether container.innerHTML was assigned,
                             \* whether the call threw

\* A cluster anchor is [items, html, engine]: the citationCluster's item ids,
\* the anchor's content ("preview" as cite leaves it, "processed" as a render's
\* sweep leaves it, "edited" after a change from outside) and the engine id
\* in its data-citation-engine-id attribute.
\* A container is the closure state of one bibliography() call:
\*   showAll, showNone  the options
\*   last, raf          the variables last and raf (raf: a frame is scheduled)
\*   frames             the update callbacks requestAnimationFrame has queued
\*                      and the browser has not run yet
\*   html               the container's content
\*   listener           onCitationUpdated is registered on the document
\*   insObs             clusterInsertionObserver is connected
\*   observed           the anchors with a connected observer in clusterObservers
\*   insQueue           anchors in undelivered records of clusterInsertionObserver
\*   mutQueue           a cluster observer has an undelivered record

vars == <<refList, linkCitations, createPromise, refsReady, refObject, referenceIds,
          citedIds, lastCitedKey,
          cachedOfflineEngine, cachedShowAllEngine, clickListener, clusters, doc,
          containers, liveContainers, disposeMark, step>>

refVars == <<refList, linkCitations, createPromise, refsReady, refObject, referenceIds>>
factoryVars == <<citedIds, lastCitedKey, cachedOfflineEngine, cachedShowAllEngine>>

\* ---------------------------------------------------------------- values
NoEngine == [built |-> FALSE, items |-> <<>>]            \* null
Engine(items) == [built |-> TRUE, items |-> items]       \* new citeproc.Engine + updateItems

Markup(kind, entries) == [kind |-> kind, entries |-> entries]
EmptyMarkup == Markup("", <<>>)                                  \* ``
NoReferences == Markup("<b>No references?</b>", <<>>)
NoCitations == Markup("<b>No citations!</b>", <<>>)
\* the banner of lines 478-480 (and 94): a fixed text followed by String(e)
ErrorBanner(e) == Markup("Bibliography error: " \o e, <<>>)
Bibliography(entries) == Markup("bibliography", entries)

\* The markup of one .csl-entry as makeBibliography returns it, as far as the
\* regular expression of line 105 reads it: a sequence of tokens, each a run
\* of text (no "<", no parenthesis), a tag, or a parenthesis with its
\* characters.
Txt == [t |-> "text", s |-> <<>>]
Tag == [t |-> "tag", s |-> <<>>]
Paren(chars) == [t |-> "paren", s |-> chars]

\* the entry the style produces for each reference of the specifications:
\*   a  Ason, A. (2020). <i>Title a</i>.
\*   b  Bson, B. (n.d.). <i>Title b</i>.
\*   c  <i>Title c</i>. (2020).
EntryText(id) ==
    CASE id = "a" -> <<Txt, Paren(<<"2", "0", "2", "0">>), Txt, Tag, Txt>>
      [] id = "b" -> <<Txt, Paren(<<"n", ".", "d", ".">>), Txt, Tag, Txt>>
      [] id = "c" -> <<Tag, Txt, Paren(<<"2", "0", "2", "0">>), Txt>>
      [] OTHER -> <<Txt>>

Entry(id) == [id |-> id, text |-> EntryText(id)]

\* the entries of makeBibliography() of an engine over ids, lines 451-458
MakeBibliography(ids) == [i \in 1..Len(ids) |-> Entry(ids[i])]

EntryIds(entries) == [i \in 1..Len(entries) |-> entries[i].id]

Digits == {"0", "1", "2", "3", "4", "5", "6", "7", "8", "9"}

\* \(\d{4}\)
IsYear(token) ==
    token.t = "paren" /\ Len(token.s) = 4 /\ \A i \in 1..4 : token.s[i] \in Digits

\* the regular expression /^([^<]+?)(\s*\(\d{4}\))/ of line 105 matches: a
\* four-digit year in parentheses, after at least one character and with no
\* "<" before it
MatchesAuthorYear(text) ==
    \E i \in 2..Len(text) : IsYear(text[i]) /\ \A j \in 1..(i - 1) : text[j].t # "tag"

\* DOM content of a bibliography container; authors: the positions of the
\* entries that hold a <span class="csl-author">
Content(markup, authors) == [kind |-> markup.kind, entries |-> markup.entries, authors |-> authors]

\* update(), lines 100-109: innerHTML = htmlString, then every .csl-entry
\* whose markup matches the regular expression gets its leading author text
\* wrapped in <span class="csl-author">
PostProcess(markup) ==
    Content(markup, {i \in 1..Len(markup.entries) : MatchesAuthorYear(markup.entries[i].text)})

Call(op, arg) == [op |-> op, arg |-> arg]

\* citationEngineId, line 248: Math.random().toString(36).slice(2, 7), drawn
\* by each session for itself. EngineId is the id the session modelled drew;
\* EngineIds are the ids another session of the page can have drawn: the same
\* one, or another.
EngineId == "A"
EngineIds == {"A", "B"}

\* the anchor cite returns, lines 353-357
Anchor(items, engineId) ==
    [items |-> items, html |-> "preview", engine |-> engineId, own |-> TRUE]

\* the anchor a cite of another session returns, lines 343-357: it carries the
\* citationCluster of that call, with ids of that session's references, and
\* is stamped with the id that session drew
ForeignAnchor(items, engineId) ==
    [items |-> items, html |-> "preview", engine |-> engineId, own |-> FALSE]

\* document.querySelectorAll(clusterSelector(engineId)), lines 241-242: the
\* attached anchors stamped with engineId, in document order
RECURSIVE ClusterSelector(_, _, _)
ClusterSelector(attached, anchors, engineId) ==
    IF Len(attached) = 0 THEN <<>>
    ELSE IF anchors[Head(attached)].engine = engineId
    THEN <<Head(attached)>> \o ClusterSelector(Tail(attached), anchors, engineId)
    ELSE ClusterSelector(Tail(attached), anchors, engineId)

NoFault == [at |-> "none", k |-> 0]
Faults == {[at |-> a, k |-> 0] : a \in {"none", "build", "bibliography"}}
              \cup {[at |-> "process", k |-> k] : k \in 1..MaxClusters}

\* SpecFault: no fault, or processCitationCluster throws at its k-th call
ProcessFaults == {NoFault} \cup {[at |-> "process", k |-> k] : k \in 1..FaultMaxClusters}

\* sys.retrieveItem returns undefined for an id that is not in referenceMap
\* and the engine throws on it
UnknownIds(ids) == \E i \in 1..Len(ids) : ids[i] \notin Range(referenceIds)

\* String(e) of the exception an engine call throws: one message per call
\* that fails (the k-th processCitationCluster call has its own)
ErrorMessage(fault) ==
    CASE fault.at = "build" -> "engine construction"
      [] fault.at = "process" -> "processCitationCluster " \o ToString(fault.k)
      [] fault.at = "bibliography" -> "makeBibliography"
      [] OTHER -> "unknown id"

\* the message of the exception thrown while an engine is built: by the
\* constructor (fault), or by updateItems on an id that is not in referenceMap
BuildErrorMessage(fault) ==
    IF fault.at = "build" THEN ErrorMessage(fault) ELSE "unknown id"

ErrorMessages ==
    {ErrorMessage(f) : f \in (Faults \cup ProcessFaults) \ {NoFault}} \cup {"unknown id"}

IsErrorBanner(markup) == \E e \in ErrorMessages : markup = ErrorBanner(e)

\* ---------------------------------------------------------------- bibliographyRaw
\* mutants of ShortCircuit
ShortCircuitNoShowNone(showAll, showNone) ==
    IF Len(referenceIds) = 0 THEN "noreferences"
    ELSE IF ~showAll /\ Len(citedIds) = 0 THEN "nocitations"
    ELSE "render"

ShortCircuitNoReferenceCheck(showAll, showNone) ==
    IF showNone THEN "empty"
    ELSE IF ~showAll /\ Len(citedIds) = 0 THEN "nocitations"
    ELSE "render"

ShortCircuitNoCitedCheck(showAll, showNone) ==
    IF Len(referenceIds) = 0 THEN "noreferences"
    ELSE IF showNone THEN "empty"
    ELSE "render"

\* the early returns of bibliographyRaw, lines 389-394 and 404-406
ShortCircuit(showAll, showNone) ==
    IF Len(referenceIds) = 0 THEN "noreferences"
    ELSE IF showNone THEN "empty"
    ELSE IF ~showAll /\ Len(citedIds) = 0 THEN "nocitations"
    ELSE "render"

\* mutant of SelectEngine: a cached cited-scoped engine is reused whatever the key
SelectEngineKeepsCached(showAll, fault) ==
    LET keep == [threw |-> FALSE, error |-> "", engine |-> NoEngine,
                 offline |-> cachedOfflineEngine, showall |-> cachedShowAllEngine,
                 key |-> lastCitedKey, log |-> <<>>]
        sorted == SortIds(citedIds)
        key == CitedKey(citedIds)
    IN IF showAll
       THEN IF ~cachedShowAllEngine.built
            THEN IF fault.at = "build"
                 THEN [keep EXCEPT !.threw = TRUE, !.error = BuildErrorMessage(fault),
                                   !.log = <<Call("makeShowAllEngine", 0)>>]
                 ELSE [keep EXCEPT !.engine = Engine(referenceIds),
                                   !.showall = Engine(referenceIds),
                                   !.log = <<Call("makeShowAllEngine", 0)>>]
            ELSE [keep EXCEPT !.engine = cachedShowAllEngine]
       ELSE IF ~cachedOfflineEngine.built
            THEN IF fault.at = "build" \/ UnknownIds(sorted)
                 THEN [keep EXCEPT !.threw = TRUE, !.error = BuildErrorMessage(fault),
                                   !.log = <<Call("makeOfflineEngine", 0)>>]
                 ELSE [keep EXCEPT !.engine = Engine(sorted),
                                   !.offline = Engine(sorted),
                                   !.key = key,
                                   !.log = <<Call("makeOfflineEngine", 0)>>]
            ELSE [keep EXCEPT !.engine = cachedOfflineEngine]

\* engine selection, lines 396-414
SelectEngine(showAll, fault) ==
    LET keep == [threw |-> FALSE, error |-> "", engine |-> NoEngine,
                 offline |-> cachedOfflineEngine, showall |-> cachedShowAllEngine,
                 key |-> lastCitedKey, log |-> <<>>]
        sorted == SortIds(citedIds)
        key == CitedKey(citedIds)
    IN IF showAll
       THEN IF ~cachedShowAllEngine.built
            THEN IF fault.at = "build"
                 THEN [keep EXCEPT !.threw = TRUE, !.error = BuildErrorMessage(fault),
                                   !.log = <<Call("makeShowAllEngine", 0)>>]
                 ELSE [keep EXCEPT !.engine = Engine(referenceIds),
                                   !.showall = Engine(referenceIds),
                                   !.log = <<Call("makeShowAllEngine", 0)>>]
            ELSE [keep EXCEPT !.engine = cachedShowAllEngine]
       ELSE IF key # lastCitedKey \/ ~cachedOfflineEngine.built
            THEN IF fault.at = "build" \/ UnknownIds(sorted)
                 THEN [keep EXCEPT !.threw = TRUE, !.error = BuildErrorMessage(fault),
                                   !.log = <<Call("makeOfflineEngine", 0)>>]
                 ELSE [keep EXCEPT !.engine = Engine(sorted),
                                   !.offline = Engine(sorted),
                                   !.key = key,
                                   !.log = <<Call("makeOfflineEngine", 0)>>]
            ELSE [keep EXCEPT !.engine = cachedOfflineEngine]

\* the processCitationCluster sweep over the attached anchors, lines 426-440
\* the calls of the sweep that throw: the k-th when the engine fails there
\* (fault), and each call for an anchor that cites an id sys.retrieveItem
\* does not find in referenceMap (an anchor of another session that drew this
\* session's engine id: cite returns no anchor for such an id, lines 366-380)
ThrowingCalls(tags, fault) ==
    {k \in 1..Len(tags) : \/ fault.at = "process" /\ fault.k = k
                          \/ UnknownIds(clusters[tags[k]].items)}

\* the call at which the sweep is left for the catch of line 478; 0: none
ThrowAt(tags, fault) ==
    IF ThrowingCalls(tags, fault) = {} THEN 0
    ELSE CHOOSE k \in ThrowingCalls(tags, fault) : \A j \in ThrowingCalls(tags, fault) : k <= j

ProcessThrows(tags, fault) == ThrowAt(tags, fault) > 0

ProcessLog(tags, fault) ==
    LET n == IF ProcessThrows(tags, fault) THEN ThrowAt(tags, fault) ELSE Len(tags)
    IN [i \in 1..n |-> Call("processCitationCluster", tags[i])]

\* String(e) of the exception that ends the sweep
ProcessErrorMessage(tags, fault) ==
    IF UnknownIds(clusters[tags[ThrowAt(tags, fault)]].items) THEN "unknown id"
    ELSE ErrorMessage(fault)

\* the anchor overwrite of lines 442-448
Overwrite(tags) ==
    [k \in 1..Len(clusters) |->
        IF k \in Range(tags) THEN [clusters[k] EXCEPT !.html = "processed"] ELSE clusters[k]]

\* mutant of BibliographyRaw: each anchor is overwritten as soon as it has
\* been processed
BibliographyRawInterleaved(showAll, showNone, fault) ==
    LET keep == [markup |-> EmptyMarkup, offline |-> cachedOfflineEngine,
                 showall |-> cachedShowAllEngine, key |-> lastCitedKey,
                 clusters |-> clusters, rewritten |-> {}, log |-> <<>>]
        sc == ShortCircuit(showAll, showNone)
        sel == SelectEngine(showAll, fault)
        selected == [keep EXCEPT !.offline = sel.offline, !.showall = sel.showall,
                                 !.key = sel.key, !.log = sel.log]
        tags == ClusterSelector(doc, clusters, EngineId)
        sweep == ~showAll /\ Len(tags) > 0
        plog == IF sweep THEN ProcessLog(tags, fault) ELSE <<>>
        swept == IF sweep
                 THEN [selected EXCEPT !.clusters = Overwrite(tags), !.rewritten = Range(tags),
                                       !.log = sel.log \o plog]
                 ELSE selected
    IN CASE sc = "noreferences" -> [keep EXCEPT !.markup = NoReferences]
         [] sc = "empty" -> keep
         [] sc = "nocitations" -> [keep EXCEPT !.markup = NoCitations]
         [] OTHER ->
            IF sel.threw THEN [selected EXCEPT !.markup = ErrorBanner(sel.error)]
            ELSE IF sweep /\ ProcessThrows(tags, fault)
            THEN [selected EXCEPT !.markup = ErrorBanner(ProcessErrorMessage(tags, fault)),
                                  !.clusters = Overwrite(SubSeq(tags, 1, ThrowAt(tags, fault) - 1)),
                                  !.rewritten = Range(SubSeq(tags, 1, ThrowAt(tags, fault) - 1)),
                                  !.log = sel.log \o plog]
            ELSE IF fault.at = "bibliography"
            THEN [swept EXCEPT !.markup = ErrorBanner(ErrorMessage(fault)),
                               !.log = swept.log \o <<Call("makeBibliography", 0)>>]
            ELSE [swept EXCEPT !.markup = Bibliography(MakeBibliography(SortIds(sel.engine.items))),
                               !.log = swept.log \o <<Call("makeBibliography", 0)>>]

\* cite.bibliographyRaw({showAll, showNone}), lines 387-481: the markup it
\* returns and the state it leaves
BibliographyRaw(showAll, showNone, fault) ==
    LET keep == [markup |-> EmptyMarkup, offline |-> cachedOfflineEngine,
                 showall |-> cachedShowAllEngine, key |-> lastCitedKey,
                 clusters |-> clusters, rewritten |-> {}, log |-> <<>>]
        sc == ShortCircuit(showAll, showNone)
        sel == SelectEngine(showAll, fault)
        selected == [keep EXCEPT !.offline = sel.offline, !.showall = sel.showall,
                                 !.key = sel.key, !.log = sel.log]
        tags == ClusterSelector(doc, clusters, EngineId)
        sweep == ~showAll /\ Len(tags) > 0
        plog == IF sweep THEN ProcessLog(tags, fault) ELSE <<>>
        swept == IF sweep
                 THEN [selected EXCEPT !.clusters = Overwrite(tags), !.rewritten = Range(tags),
                                       !.log = sel.log \o plog]
                 ELSE selected
    IN CASE sc = "noreferences" -> [keep EXCEPT !.markup = NoReferences]
         [] sc = "empty" -> keep
         [] sc = "nocitations" -> [keep EXCEPT !.markup = NoCitations]
         [] OTHER ->
            IF sel.threw THEN [selected EXCEPT !.markup = ErrorBanner(sel.error)]
            ELSE IF sweep /\ ProcessThrows(tags, fault)
            THEN [selected EXCEPT !.markup = ErrorBanner(ProcessErrorMessage(tags, fault)),
                                  !.log = sel.log \o plog]
            ELSE IF fault.at = "bibliography"
            THEN [swept EXCEPT !.markup = ErrorBanner(ErrorMessage(fault)),
                               !.log = swept.log \o <<Call("makeBibliography", 0)>>]
            ELSE [swept EXCEPT !.markup = Bibliography(MakeBibliography(SortIds(sel.engine.items))),
                               !.log = swept.log \o <<Call("makeBibliography", 0)>>]

\* ---------------------------------------------------------------- Refs constructor
\* an entry "@article{id, ...}" of the raw reference list; title tells what
\* follows the key before the next "@": a field whose name ends in "title" with
\* a value of at least one character ("text"), such a field with the value {}
\* or "" only ("empty"), or no such field ("none")
RefEntry(id, title) == [id |-> id, title |-> title]

TitleKinds == {"text", "empty", "none"}

\* the reference set of a raw reference list
RefIds(raw) == {raw[i].id : i \in 1..Len(raw)}

\* a reference list whose entries all have a title
Titled(ids) == [i \in 1..Len(ids) |-> RefEntry(ids[i], "text")]

\* Map.prototype.set via reduce, lines 280-283: one key per id, at the position
\* of its first occurrence. Cite.async yields a record for an entry whether it
\* has a title or not.
RECURSIVE MapKeys(_)
MapKeys(raw) ==
    IF Len(raw) = 0 THEN <<>>
    ELSE SetAdd(MapKeys(SubSeq(raw, 1, Len(raw) - 1)), raw[Len(raw)].id)

\* constructor, lines 25-40: one row per value of referenceMap, in Map order
RowsFromReferenceMap(raw) == MapKeys(raw)

\* localeCompare is called without a locale (line 187): the collation is that
\* of the browser's language. caseFirst is the option of that collation that
\* orders the two cases of a letter: "false" (lower case first, as in en-US and
\* en-GB) or "upper" (upper case first, as in Danish).
CaseFirsts == {"false", "upper"}

\* the order of String.prototype.localeCompare on one-letter names: by letter,
\* then by case as caseFirst says
LocaleRank(name, caseFirst) ==
    CASE name = "a" -> 1
      [] name = "b" -> IF caseFirst = "upper" THEN 4 ELSE 3
      [] name = "B" -> IF caseFirst = "upper" THEN 3 ELSE 4
      [] name = "c" -> 5
      [] OTHER -> 0

RECURSIVE InsertByName(_, _, _)
InsertByName(s, x, caseFirst) ==
    IF Len(s) = 0 THEN <<x>>
    ELSE IF LocaleRank(x, caseFirst) < LocaleRank(Head(s), caseFirst) THEN <<x>> \o s
    ELSE <<Head(s)>> \o InsertByName(Tail(s), x, caseFirst)

\* entries.sort((a, b) => a.name.localeCompare(b.name)), line 187
RECURSIVE SortByName(_, _)
SortByName(s, caseFirst) ==
    IF Len(s) = 0 THEN <<>>
    ELSE InsertByName(SortByName(SubSeq(s, 1, Len(s) - 1), caseFirst), s[Len(s)], caseFirst)

\* the matches of the regular expression of line 180, in input order: an entry
\* matches when "title\s*=\s*[{"]([^"}]+)[}"]" matches after its key and before
\* the next "@", that is when it has a title field with a non-empty value
RECURSIVE RegexMatches(_)
RegexMatches(raw) ==
    IF Len(raw) = 0 THEN <<>>
    ELSE IF Head(raw).title = "text" THEN <<Head(raw).id>> \o RegexMatches(Tail(raw))
    ELSE RegexMatches(Tail(raw))

\* #parseBibtex, lines 178-189: one row per regex match, sorted by name
ParseBibtex(raw, caseFirst) == SortByName(RegexMatches(raw), caseFirst)

\* ---------------------------------------------------------------- scheduler
\* mutant of Schedule: requestAnimationFrame is called whatever raf is
ScheduleUnguarded(ctr) == [ctr EXCEPT !.raf = TRUE, !.frames = @ + 1]

\* schedule(), lines 112-115
Schedule(ctr) == IF ctr.raf THEN ctr ELSE [ctr EXCEPT !.raf = TRUE, !.frames = @ + 1]

\* onCitationUpdated, lines 117-120, for an event of this session's engine
OnCitationUpdated(ctr) == IF ctr.listener THEN Schedule(ctr) ELSE ctr

\* onCitationUpdated, lines 117-120, for an event with detail.engine = engineId
OnCitationUpdatedFrom(ctr, engineId) ==
    IF engineId # EngineId THEN ctr ELSE OnCitationUpdated(ctr)

\* mutant of MustWrite: no string-equality short-circuit
MustWriteAlways(htmlString, last) == TRUE

\* update(), line 96
MustWrite(htmlString, last) == htmlString # last

\* mutant of Updated: an error banner does not replace the container's content
UpdatedKeepsContentOnError(ctr, r) ==
    LET w == MustWrite(r.markup, ctr.last) /\ ~IsErrorBanner(r.markup)
    IN [ctr EXCEPT !.raf = FALSE,
                   !.last = IF w THEN r.markup ELSE @,
                   !.html = IF w THEN PostProcess(r.markup) ELSE @]

\* update(), lines 88-110, on one container given the renderer's result
Updated(ctr, r) ==
    LET w == MustWrite(r.markup, ctr.last)
    IN [ctr EXCEPT !.raf = FALSE,
                   !.last = IF w THEN r.markup ELSE @,
                   !.html = IF w THEN PostProcess(r.markup) ELSE @]

\* a MutationObserver(schedule) on an anchor queues a record when the anchor's
\* content is assigned; the record is delivered in a later microtask
Notified(ctr, anchors) ==
    IF ctr.observed \cap anchors # {} THEN [ctr EXCEPT !.mutQueue = TRUE] ELSE ctr

NoMicrotask == \A c \in 1..Len(containers) :
                   containers[c].insQueue = {} /\ ~containers[c].mutQueue

\* mutant of NewContainer: the first render is left to the next frame
NewContainerDeferred(showAll, showNone, r) ==
    [showAll |-> showAll, showNone |-> showNone, last |-> EmptyMarkup, raf |-> TRUE,
     frames |-> 1,
     html |-> Content(EmptyMarkup, {}), listener |-> TRUE,
     insObs |-> TRUE, observed |-> Range(ClusterSelector(doc, clusters, EngineId)),
     insQueue |-> {}, mutQueue |-> FALSE]

\* bibliography(), lines 83-145 and 158: the container after the initial render
NewContainer(showAll, showNone, r) ==
    Notified(
        Updated([showAll |-> showAll, showNone |-> showNone, last |-> EmptyMarkup,
                 raf |-> FALSE, frames |-> 0, html |-> Content(EmptyMarkup, {}),
                 listener |-> TRUE, insObs |-> TRUE,
                 observed |-> Range(ClusterSelector(doc, clusters, EngineId)),
                 insQueue |-> {}, mutQueue |-> FALSE], r),
        r.rewritten)

Step(op, by, threw) ==
    [op |-> op, by |-> by, markup |-> EmptyMarkup, wrote |-> FALSE, threw |-> threw]

\* a step that is neither an update() nor a dispose()
OtherStep == Step("other", 0, FALSE)

\* the effect of update() run for container c (with content last applied
\* "last") by operation op on the factory state and on the anchors
Rendered(op, c, last, r) ==
    /\ cachedOfflineEngine' = r.offline
    /\ cachedShowAllEngine' = r.showall
    /\ lastCitedKey' = r.key
    /\ clusters' = r.clusters
    /\ step' = [op |-> op, by |-> c, markup |-> r.markup,
                wrote |-> MustWrite(r.markup, last), threw |-> FALSE]

\* ---------------------------------------------------------------- cite arguments
\* One argument of a cite call: its typeof ("string", "object", "number"; null
\* has typeof "object" and is kept apart as "null") and its own id property
\* ("" when it has none).
Arg(type, id) == [type |-> type, id |-> id]
Str(id) == Arg("string", id)
Obj(id) == Arg("object", id)
Props == Arg("object", "")
Null == Arg("null", "")
Num == Arg("number", "")

\* typeof x === 'object'
TypeofObject(x) == x.type \in {"object", "null"}

\* x.hasOwnProperty('id') throws a TypeError when x is null
HasOwnPropertyThrows(x) == x.type = "null"

\* the test "params.length && typeof last === 'object' && !last.hasOwnProperty('id')"
\* of lines 192-196 and 325-329: whether its evaluation throws, and its value
LastIsPropsThrows(params) ==
    Len(params) > 0 /\ TypeofObject(params[Len(params)])
                    /\ HasOwnPropertyThrows(params[Len(params)])

LastIsProps(params) ==
    Len(params) > 0 /\ TypeofObject(params[Len(params)]) /\ params[Len(params)].id = ""

\* Refs.#citeProp(k, v, ...params), lines 191-201: the arguments it passes to
\* citeFac, or the exception it lets through
CiteProp(params) ==
    IF LastIsPropsThrows(params) THEN [threw |-> TRUE, args |-> <<>>]
    ELSE [threw |-> FALSE,
          args |-> IF LastIsProps(params)
                   THEN SubSeq(params, 1, Len(params) - 1) \o <<Props>>
                   ELSE params \o <<Props>>]

\* Refs.cite, Refs.citep, Refs.citeeg, lines 71-81
EntryPoints == {"cite", "citep", "citeeg"}

EntryArgs(entry, params) ==
    IF entry = "citep" THEN [threw |-> FALSE, args |-> params] ELSE CiteProp(params)

\* wrapCitationItem, lines 295-306: the id of the wrapped item ("" for undefined)
WrapCitationItem(raw) == IF raw.type \in {"string", "object"} THEN raw.id ELSE ""

\* the items that "if (ci && ci.id) citedIds.add(ci.id)" adds, lines 337-341
RECURSIVE TruthyIds(_)
TruthyIds(ids) ==
    IF Len(ids) = 0 THEN <<>>
    ELSE IF Head(ids) # "" THEN <<Head(ids)>> \o TruthyIds(Tail(ids))
    ELSE TruthyIds(Tail(ids))

\* the try block of cite, lines 324-365, on the arguments citeFac is called
\* with: the wrapped item ids, the ids added to citedIds before the block is
\* left, and whether the block throws (into the catch of lines 366-379)
CiteTry(args, fault) ==
    IF LastIsPropsThrows(args) THEN [items |-> <<>>, added |-> <<>>, failed |-> TRUE]
    ELSE LET citationItems == IF LastIsProps(args) THEN SubSeq(args, 1, Len(args) - 1)
                              ELSE args
             items == [i \in 1..Len(citationItems) |-> WrapCitationItem(citationItems[i])]
         IN [items |-> items, added |-> TruthyIds(items),
             failed |-> fault \/ UnknownIds(items)]

\* the element a cite call returns
ClusterAnchor == Markup("csl-citation-cluster", <<>>)
CitationError == Markup("Citation error: ", <<>>)

\* ---------------------------------------------------------------- actions
\* cite(...citationItems), lines 323-380
Cite(items, fault, maxClusters) ==
    /\ citedIds' = SetAddAll(citedIds, items)
    /\ IF fault \/ UnknownIds(items)
       THEN \* previewCitationCluster throws: the inline error marker is returned
            /\ UNCHANGED <<clusters, containers>>
            /\ step' = OtherStep
       ELSE /\ Len(clusters) < maxClusters
            /\ step' = OtherStep
            /\ clusters' = Append(clusters, Anchor(items, EngineId))
            /\ containers' = [c \in 1..Len(containers) |-> OnCitationUpdated(containers[c])]
    /\ UNCHANGED <<refVars, lastCitedKey, cachedOfflineEngine, cachedShowAllEngine,
                   clickListener, doc, liveContainers, disposeMark>>

\* what a call of a cite entry point did: the element returned (EmptyMarkup
\* when the call threw) and whether the call threw
CiteStep(element, threw) ==
    [op |-> "cite", by |-> 0, markup |-> element, wrote |-> FALSE, threw |-> threw]

\* Refs.cite(...params), Refs.citep(...params), Refs.citeeg(...params),
\* lines 71-81, down to the factory's cite, lines 323-380
CiteCall(entry, params, fault, maxClusters) ==
    LET e == EntryArgs(entry, params)
        t == CiteTry(e.args, fault)
    IN /\ IF e.threw
          THEN \* the TypeError of #citeProp reaches the caller
               /\ step' = CiteStep(EmptyMarkup, TRUE)
               /\ UNCHANGED <<citedIds, clusters, containers>>
          ELSE /\ citedIds' = SetAddAll(citedIds, t.added)
               /\ IF t.failed
                  THEN /\ step' = CiteStep(CitationError, FALSE)
                       /\ UNCHANGED <<clusters, containers>>
                  ELSE /\ Len(clusters) < maxClusters
                       /\ step' = CiteStep(ClusterAnchor, FALSE)
                       /\ clusters' = Append(clusters, Anchor(t.items, EngineId))
                       /\ containers' = [c \in 1..Len(containers) |->
                                            OnCitationUpdated(containers[c])]
       /\ UNCHANGED <<refVars, lastCitedKey, cachedOfflineEngine, cachedShowAllEngine,
                      clickListener, doc, liveContainers, disposeMark>>

\* cite of another session on the same page, lines 353-365: an anchor stamped
\* with that session's engine id, and a citation-changed event carrying it.
\* engineId is the id that session drew at line 248; nothing keeps it from
\* being the id this session drew, and then the listener of line 118 lets
\* the event through and this session's selectors match the anchor. items
\* are the ids cited, references of the other session: this session's
\* citedIds is not touched.
ForeignCite(items, engineId, maxClusters) ==
    /\ Len(clusters) < maxClusters
    /\ clusters' = Append(clusters, ForeignAnchor(items, engineId))
    /\ containers' = [c \in 1..Len(containers) |->
                         OnCitationUpdatedFrom(containers[c], engineId)]
    /\ step' = OtherStep
    /\ UNCHANGED <<refVars, factoryVars, clickListener, doc, liveContainers, disposeMark>>

\* the caller inserts a returned anchor into the document: as the node added
\* (direct), or inside an element that is added (a paragraph, a cell). The
\* record clusterInsertionObserver gets lists the added node only, and its
\* callback (lines 133-141) tests that node alone, so an anchor inserted
\* inside another element is never passed to observeCluster.
Attach(k, pos, direct) ==
    /\ k \in 1..Len(clusters)
    /\ k \notin Range(doc)
    /\ pos \in 1..(Len(doc) + 1)
    /\ doc' = InsertAt(doc, pos, k)
    /\ step' = OtherStep
    /\ containers' = [c \in 1..Len(containers) |->
                         IF containers[c].insObs /\ direct
                         THEN [containers[c] EXCEPT !.insQueue = @ \cup {k}]
                         ELSE containers[c]]
    /\ UNCHANGED <<refVars, factoryVars, clickListener, clusters, liveContainers,
                   disposeMark>>

\* the caller removes an anchor from the document
Detach(k) ==
    /\ k \in Range(doc)
    /\ doc' = RemoveElem(doc, k)
    /\ step' = OtherStep
    /\ UNCHANGED <<refVars, factoryVars, clickListener, clusters, containers,
                   liveContainers, disposeMark>>

\* something outside the renderer changes the content of an anchor
Mutate(k) ==
    /\ k \in 1..Len(clusters)
    /\ clusters' = [clusters EXCEPT ![k].html = "edited"]
    /\ step' = OtherStep
    /\ containers' = [c \in 1..Len(containers) |-> Notified(containers[c], {k})]
    /\ UNCHANGED <<refVars, factoryVars, clickListener, doc, liveContainers,
                   disposeMark>>

\* clusterInsertionObserver's callback, lines 133-141, on the queued records
InsertionsDelivered(ctr) ==
    [ctr EXCEPT !.observed = @ \cup ctr.insQueue, !.insQueue = {}]

\* a cluster observer's callback, which is schedule (line 126)
MutationsDelivered(ctr) ==
    IF ctr.mutQueue THEN Schedule([ctr EXCEPT !.mutQueue = FALSE]) ELSE ctr

\* the microtask checkpoint that ends a task: every queued mutation record is
\* delivered to its observer's callback
Microtasks ==
    /\ ~NoMicrotask
    /\ step' = OtherStep
    /\ containers' = [c \in 1..Len(containers) |->
                         MutationsDelivered(InsertionsDelivered(containers[c]))]
    /\ UNCHANGED <<refVars, factoryVars, clickListener, clusters, doc, liveContainers,
                   disposeMark>>

\* the browser runs a queued update callback: update(), lines 88-110
Frame(c, fault) ==
    /\ c \in 1..Len(containers)
    /\ containers[c].frames > 0
    /\ NoMicrotask
    /\ LET r == BibliographyRaw(containers[c].showAll, containers[c].showNone, fault)
       IN /\ Rendered("frame", c, containers[c].last, r)
          /\ containers' = [d \in 1..Len(containers) |->
                               Notified(IF d = c
                                        THEN Updated([containers[d] EXCEPT !.frames = @ - 1], r)
                                        ELSE containers[d], r.rewritten)]
    /\ UNCHANGED <<refVars, citedIds, clickListener, doc, liveContainers, disposeMark>>

\* Refs.bibliography({showAll, showNone}), lines 83-161
BibliographyCall(showAll, showNone, fault, maxContainers) ==
    /\ Len(containers) < maxContainers
    /\ LET r == BibliographyRaw(showAll, showNone, fault)
       IN /\ Rendered("bibliography", Len(containers) + 1, EmptyMarkup, r)
          /\ containers' = Append([d \in 1..Len(containers) |->
                                      Notified(containers[d], r.rewritten)],
                                  NewContainer(showAll, showNone, r))
    /\ liveContainers' = liveContainers \cup {Len(containers) + 1}
    /\ UNCHANGED <<refVars, citedIds, clickListener, doc, disposeMark>>

\* ---------------------------------------------------------------- disposal
\* clusterObservers is a WeakMap (line 123); WeakMap.prototype has no values
\* method, so the call clusterObservers.values() of line 150 throws a TypeError
WeakMapHasValues == FALSE

\* container.dispose(), lines 147-157, on one container: the container it
\* leaves, whether it was deleted from the session's set, whether it threw
DisposeContainer(ctr) ==
    LET detached == [ctr EXCEPT !.listener = FALSE, !.insObs = FALSE, !.insQueue = {}]
    IN IF WeakMapHasValues
       THEN [ctr |-> [detached EXCEPT !.observed = {}, !.mutQueue = FALSE],
             deleted |-> TRUE, threw |-> FALSE]
       ELSE [ctr |-> detached, deleted |-> FALSE, threw |-> TRUE]

Min(S) == CHOOSE x \in S : \A y \in S : x <= y

\* the loop of Refs.dispose(), lines 167-171, over the Set in insertion order;
\* an exception leaves the loop
RECURSIVE DisposeLoop(_, _, _)
DisposeLoop(ctrs, live, todo) ==
    IF todo = {} THEN [ctrs |-> ctrs, live |-> live, threw |-> FALSE]
    ELSE LET c == Min(todo)
             d == DisposeContainer(ctrs[c])
             ctrs2 == [ctrs EXCEPT ![c] = d.ctr]
             live2 == IF d.deleted THEN live \ {c} ELSE live
         IN IF d.threw THEN [ctrs |-> ctrs2, live |-> live2, threw |-> TRUE]
            ELSE DisposeLoop(ctrs2, live2, todo \ {c})

\* the caller calls dispose() on one bibliography container
ContainerDispose(c) ==
    /\ c \in 1..Len(containers)
    /\ LET d == DisposeContainer(containers[c])
       IN /\ containers' = [containers EXCEPT ![c] = d.ctr]
          /\ liveContainers' = IF d.deleted THEN liveContainers \ {c} ELSE liveContainers
          /\ step' = Step("container.dispose", c, d.threw)
    /\ UNCHANGED <<refVars, factoryVars, clickListener, clusters, doc, disposeMark>>

\* Refs.dispose(), lines 163-173, with cite.dispose(), lines 483-488
RefsDispose ==
    /\ clickListener' = FALSE
    /\ LET l == DisposeLoop(containers, liveContainers, liveContainers)
       IN /\ containers' = l.ctrs
          /\ liveContainers' = IF l.threw THEN l.live ELSE {}
          /\ step' = Step("dispose", 0, l.threw)
    /\ disposeMark' = IF disposeMark = -1 THEN Len(containers) ELSE disposeMark
    /\ UNCHANGED <<refVars, factoryVars, clusters, doc>>

\* ---------------------------------------------------------------- specifications
\* the state after the promise of Refs.create(refs, {linkCitations: link}) is
\* fulfilled, for a reference list of entries with the ids refs: lines 47-61,
\* 244-293
Created(refs, link) ==
    /\ refList = Titled(refs)
    /\ linkCitations = link
    /\ createPromise = "fulfilled"
    /\ refsReady = TRUE
    /\ refObject = RowsFromReferenceMap(Titled(refs))
    /\ referenceIds = MapKeys(Titled(refs))
    /\ citedIds = <<>>
    /\ lastCitedKey = ""
    /\ cachedOfflineEngine = NoEngine
    /\ cachedShowAllEngine = NoEngine
    /\ clickListener = link
    /\ clusters = <<>>
    /\ doc = <<>>
    /\ containers = <<>>
    /\ liveContainers = {}
    /\ disposeMark = -1
    /\ step = OtherStep

\* Spec: one session, every operation, every option and every engine fault
Init == \E refs \in RefLists, link \in BOOLEAN : Created(refs, link)

Next ==
    \/ \E items \in SeqsUpTo(Ids, MaxItems), fault \in BOOLEAN : Cite(items, fault, MaxClusters)
    \/ \E k \in 1..MaxClusters, pos \in 1..MaxClusters, direct \in BOOLEAN :
           Attach(k, pos, direct)
    \/ \E k \in 1..MaxClusters : Detach(k)
    \/ \E k \in 1..MaxClusters : Mutate(k)
    \/ Microtasks
    \/ \E c \in 1..MaxContainers, fault \in Faults : Frame(c, fault)
    \/ \E showAll \in BOOLEAN, showNone \in BOOLEAN, fault \in Faults :
           BibliographyCall(showAll, showNone, fault, MaxContainers)
    \/ \E c \in 1..MaxContainers : ContainerDispose(c)
    \/ RefsDispose

Spec == Init /\ [][Next]_vars

\* SpecDispose: disposal with several cited-only bibliographies of one
\* session, references a and b, no engine fault
InitDispose == Created(<<"a", "b">>, TRUE)

NextDispose ==
    \/ \E items \in SeqsUpTo(Ids, 1) \ {<<>>} : Cite(items, FALSE, DisposeMaxClusters)
    \/ \E k \in 1..DisposeMaxClusters : Attach(k, Len(doc) + 1, TRUE)
    \/ \E k \in 1..DisposeMaxClusters : Mutate(k)
    \/ Microtasks
    \/ \E c \in 1..DisposeMaxContainers : Frame(c, NoFault)
    \/ BibliographyCall(FALSE, FALSE, NoFault, DisposeMaxContainers)
    \/ \E c \in 1..DisposeMaxContainers : ContainerDispose(c)
    \/ RefsDispose

SpecDispose == InitDispose /\ [][NextDispose]_vars

\* SpecKey: the cited-id tracker and the cited-mode cache key over three
\* references, with one cited-only bibliography
InitKey == Created(<<"a", "b", "c">>, TRUE)

NextKey ==
    \/ \E items \in SeqsUpTo(KeyIds, KeyMaxItems) \ {<<>>} : Cite(items, FALSE, KeyMaxClusters)
    \/ \E c \in 1..1 : Frame(c, NoFault)
    \/ BibliographyCall(FALSE, FALSE, NoFault, 1)

SpecKey == InitKey /\ [][NextKey]_vars

\* SpecCite: the three cite entry points of Refs on every argument list of up
\* to CiteMaxParams arguments, with one bibliography of either mode
CiteArgs == {Str(i) : i \in Ids} \cup {Obj(i) : i \in Ids} \cup {Props, Null, Num}

InitCite == \E refs \in RefLists, link \in BOOLEAN : Created(refs, link)

NextCite ==
    \/ \E entry \in EntryPoints, params \in SeqsUpTo(CiteArgs, CiteMaxParams),
          fault \in BOOLEAN : CiteCall(entry, params, fault, CiteMaxClusters)
    \/ \E c \in 1..1 : Frame(c, NoFault)
    \/ \E showAll \in BOOLEAN : BibliographyCall(showAll, FALSE, NoFault, 1)

SpecCite == InitCite /\ [][NextCite]_vars

\* SpecSessions: sessions on one page. The session modelled cites and has
\* one bibliography, and its anchors stay out of the document; the other
\* sessions, each with the engine id it drew, cite, and their anchors are
\* inserted into the document and changed.
IsForeign(k) == k \in 1..Len(clusters) /\ ~clusters[k].own

\* what a cite of the other sessions cites: a reference this session has
\* too (a), or one it has not (c)
ForeignItems == {<<"a">>, <<"c">>}

InitSessions == Created(<<"a", "b">>, TRUE)

NextSessions ==
    \/ \E items \in SeqsUpTo(Ids, 1) \ {<<>>} : Cite(items, FALSE, SessionsMaxClusters)
    \/ \E items \in ForeignItems, engineId \in EngineIds :
           ForeignCite(items, engineId, SessionsMaxClusters)
    \/ \E k \in 1..SessionsMaxClusters : IsForeign(k) /\ Attach(k, Len(doc) + 1, TRUE)
    \/ \E k \in 1..SessionsMaxClusters : IsForeign(k) /\ Mutate(k)
    \/ Microtasks
    \/ \E c \in 1..1 : Frame(c, NoFault)
    \/ \E showAll \in BOOLEAN : BibliographyCall(showAll, FALSE, NoFault, 1)

SpecSessions == InitSessions /\ [][NextSessions]_vars

\* SpecSweep: the reprocessing sweep of a cited-only render over several
\* anchors, inserted into the document at any position and removed again;
\* references a and b, no engine fault
InitSweep == Created(<<"a", "b">>, TRUE)

NextSweep ==
    \/ \E items \in SeqsUpTo(Ids, 1) \ {<<>>} : Cite(items, FALSE, SweepMaxClusters)
    \/ \E k \in 1..SweepMaxClusters, pos \in 1..SweepMaxClusters, direct \in BOOLEAN :
           Attach(k, pos, direct)
    \/ \E k \in 1..SweepMaxClusters : Detach(k)
    \/ Microtasks
    \/ \E c \in 1..1 : Frame(c, NoFault)
    \/ \E showAll \in BOOLEAN : BibliographyCall(showAll, FALSE, NoFault, 1)

SpecSweep == InitSweep /\ [][NextSweep]_vars

\* SpecFault: cited-only renders over several attached anchors in which
\* processCitationCluster throws at the k-th anchor of the sweep; references
\* a and b
InitFault == Created(<<"a", "b">>, TRUE)

NextFault ==
    \/ \E items \in SeqsUpTo(Ids, 1) \ {<<>>} : Cite(items, FALSE, FaultMaxClusters)
    \/ \E k \in 1..FaultMaxClusters, pos \in 1..FaultMaxClusters, direct \in BOOLEAN :
           Attach(k, pos, direct)
    \/ \E k \in 1..FaultMaxClusters : Mutate(k)
    \/ Microtasks
    \/ \E c \in 1..1, fault \in ProcessFaults : Frame(c, fault)
    \/ \E fault \in ProcessFaults : BibliographyCall(FALSE, FALSE, fault, 1)

SpecFault == InitFault /\ [][NextFault]_vars

\* SpecRefs: Refs.create, and the Refs constructor, on a raw reference list
RefNames == {"a", "b", "B"}

RefEntries == {RefEntry(id, title) : id \in RefNames, title \in TitleKinds}

FetchOutcomes == {"cached", "ok", "failed"}

InitRefs ==
    /\ refList \in SeqsUpTo(RefEntries, MaxRefs)
    /\ linkCitations = TRUE
    /\ createPromise = "none"
    /\ refsReady = FALSE
    /\ refObject = <<>>
    /\ referenceIds = <<>>
    /\ citedIds = <<>>
    /\ lastCitedKey = ""
    /\ cachedOfflineEngine = NoEngine
    /\ cachedShowAllEngine = NoEngine
    /\ clickListener = FALSE
    /\ clusters = <<>>
    /\ doc = <<>>
    /\ containers = <<>>
    /\ liveContainers = {}
    /\ disposeMark = -1
    /\ step = OtherStep

\* Refs.create(refList, {linkCitations: link}) up to its first await, lines
\* 47-52: fetchCslStyle is called and Refs.create is suspended on its promise
Create(link) ==
    /\ createPromise = "none"
    /\ ~refsReady
    /\ linkCitations' = link
    /\ createPromise' = "style"
    /\ UNCHANGED <<refList, refsReady, refObject, referenceIds, factoryVars, clickListener,
                   clusters, doc, containers, liveContainers, disposeMark, step>>

\* citationFactory up to its await of Cite.async, lines 244-280: the click
\* listener is added when linkCitations is set (lines 272-277)
FactoryStarted == clickListener' = linkCitations

\* fetchCslStyle, lines 211-224, as Refs.create sees it at line 52. cached: the
\* style was in STYLE_CACHE and line 53 calls fetchCslLocale; ok: fetch gave a
\* response that is ok and response.text() is awaited; failed: fetch was
\* rejected or the response is not ok, and fetchCslStyle throws
StyleResponse(outcome) ==
    /\ createPromise = "style"
    /\ createPromise' = CASE outcome = "cached" -> "locale"
                          [] outcome = "ok" -> "styleText"
                          [] OTHER -> "rejecting"
    /\ UNCHANGED <<refList, linkCitations, refsReady, refObject, referenceIds, factoryVars,
                   clickListener, clusters, doc, containers, liveContainers, disposeMark,
                   step>>

\* response.text() of the style settles, lines 221-223; Refs.create goes on to
\* fetchCslLocale, line 53
StyleText(ok) ==
    /\ createPromise = "styleText"
    /\ createPromise' = IF ok THEN "locale" ELSE "rejecting"
    /\ UNCHANGED <<refList, linkCitations, refsReady, refObject, referenceIds, factoryVars,
                   clickListener, clusters, doc, containers, liveContainers, disposeMark,
                   step>>

\* fetchCslLocale, lines 226-239, as Refs.create sees it at line 53. cached:
\* the locale was in LOCALE_CACHE and line 54 calls citationFactory
LocaleResponse(outcome) ==
    /\ createPromise = "locale"
    /\ createPromise' = CASE outcome = "cached" -> "citeAsync"
                          [] outcome = "ok" -> "localeText"
                          [] OTHER -> "rejecting"
    /\ IF outcome = "cached" THEN FactoryStarted ELSE UNCHANGED clickListener
    /\ UNCHANGED <<refList, linkCitations, refsReady, refObject, referenceIds, factoryVars,
                   clusters, doc, containers, liveContainers, disposeMark, step>>

\* response.text() of the locale settles, lines 236-238; Refs.create calls
\* citationFactory, line 54, which runs up to its await of Cite.async
LocaleText(ok) ==
    /\ createPromise = "localeText"
    /\ createPromise' = IF ok THEN "citeAsync" ELSE "rejecting"
    /\ IF ok THEN FactoryStarted ELSE UNCHANGED clickListener
    /\ UNCHANGED <<refList, linkCitations, refsReady, refObject, referenceIds, factoryVars,
                   clusters, doc, containers, liveContainers, disposeMark, step>>

\* Cite.async settles and citationFactory runs to its end, lines 280-491.
\* ok: referenceMap and referenceIds are set, the engine is built and cite is
\* returned; Refs.create is still suspended at line 54. rejected: Cite.async
\* was rejected. engine: referenceIds is set and new citeproc.Engine throws
\* (line 292). In the last two the click listener added before the await
\* stays on the document.
Parsed(outcome) ==
    /\ createPromise = "citeAsync"
    /\ createPromise' = IF outcome = "ok" THEN "citationFactory" ELSE "rejecting"
    /\ referenceIds' = IF outcome = "rejected" THEN referenceIds ELSE MapKeys(refList)
    /\ UNCHANGED <<refList, linkCitations, refsReady, refObject, factoryVars, clickListener,
                   clusters, doc, containers, liveContainers, disposeMark, step>>

\* Refs.create resumes at line 54 with citeFac and runs new Refs(refList,
\* citeFac), line 60: the rows are taken from citeFac.referenceMap (lines
\* 25-40) and the promise is fulfilled with the Refs object
Constructed ==
    /\ createPromise = "citationFactory"
    /\ refObject' = RowsFromReferenceMap(refList)
    /\ refsReady' = TRUE
    /\ createPromise' = "fulfilled"
    /\ UNCHANGED <<refList, linkCitations, referenceIds, factoryVars, clickListener,
                   clusters, doc, containers, liveContainers, disposeMark, step>>

\* Refs.create resumes at an await whose promise was rejected: it has no
\* try, so its own promise is rejected and no Refs object exists
Rejected ==
    /\ createPromise = "rejecting"
    /\ createPromise' = "rejected"
    /\ UNCHANGED <<refList, linkCitations, refsReady, refObject, referenceIds, factoryVars,
                   clickListener, clusters, doc, containers, liveContainers, disposeMark,
                   step>>

\* new Refs(refList, citeFac) with a citeFac that has no referenceMap (lines
\* 41-43), in a browser whose language has the collation option caseFirst
ConstructFallback(caseFirst) ==
    /\ createPromise = "none"
    /\ ~refsReady
    /\ refObject' = ParseBibtex(refList, caseFirst)
    /\ refsReady' = TRUE
    /\ UNCHANGED <<refList, linkCitations, createPromise, referenceIds, factoryVars,
                   clickListener, clusters, doc, containers, liveContainers, disposeMark,
                   step>>

NextRefs ==
    \/ \E link \in BOOLEAN : Create(link)
    \/ \E outcome \in FetchOutcomes : StyleResponse(outcome)
    \/ \E ok \in BOOLEAN : StyleText(ok)
    \/ \E outcome \in FetchOutcomes : LocaleResponse(outcome)
    \/ \E ok \in BOOLEAN : LocaleText(ok)
    \/ \E outcome \in {"ok", "rejected", "engine"} : Parsed(outcome)
    \/ Constructed
    \/ Rejected
    \/ \E caseFirst \in CaseFirsts : ConstructFallback(caseFirst)

SpecRefs == InitRefs /\ [][NextRefs]_vars

TypeOK ==
    /\ createPromise \in {"none", "style", "styleText", "locale", "localeText", "citeAsync",
                          "citationFactory", "rejecting", "fulfilled", "rejected"}
    /\ linkCitations \in BOOLEAN
    /\ clickListener => linkCitations
    /\ refsReady => createPromise \in {"none", "fulfilled"}
    /\ NoDup(citedIds)
    /\ Range(doc) \subseteq 1..Len(clusters)
    /\ NoDup(doc)

\* ---------------------------------------------------------------- properties
Containers == 1..Len(containers)

\* the step just taken ran update(): from a frame, or as the initial render
IsRender(s) == s.op \in {"frame", "bibliography"}

\* the containers that existed when Refs.dispose() was first called
DisposedContainers == IF disposeMark = -1 THEN {} ELSE 1..disposeMark

\* C1 (SpecDispose): once Refs.dispose() has been called, no step runs update()
\* for a container created before the call, and the content of no such
\* container changes.
C1_NoUpdateAfterDispose ==
    [][\A c \in DisposedContainers :
           /\ ~(IsRender(step') /\ step'.by = c)
           /\ containers'[c].html = containers[c].html]_vars

\* C2 (SpecDispose): a call of dispose() on a container returns normally and
\* leaves the container without its citation-changed listener, without its
\* insertion observer, without any connected cluster observer, and outside the
\* session's set of live containers.
C2_ContainerDisposeDetaches ==
    step.op = "container.dispose" =>
        /\ ~step.threw
        /\ ~containers[step.by].listener
        /\ ~containers[step.by].insObs
        /\ containers[step.by].observed = {}
        /\ step.by \notin liveContainers

\* C3 (SpecDispose): a call of Refs.dispose() leaves every container disposed
\* (no listener, no insertion observer, no connected cluster observer), the
\* set of live containers empty and the click listener removed.
C3_RefsDisposeDisposesAll ==
    step.op = "dispose" =>
        /\ ~step.threw
        /\ \A c \in Containers :
               /\ ~containers[c].listener
               /\ ~containers[c].insObs
               /\ containers[c].observed = {}
        /\ liveContainers = {}
        /\ ~clickListener

\* C4 as stated (Spec): every render with showNone = true produces empty
\* markup, whatever the reference set.
C4_ShowNoneAlwaysEmpty ==
    (IsRender(step) /\ containers[step.by].showNone) =>
        /\ step.markup = EmptyMarkup
        /\ containers[step.by].html = Content(EmptyMarkup, {})

\* C4 as amended (Spec): a render with showNone = true produces empty markup
\* whenever the reference set is not empty, whatever the cited ids and showAll;
\* with an empty reference set it produces the "no references" sentinel.
C4_ShowNoneEmptyUnlessNoReferences ==
    LET expected == IF Len(referenceIds) = 0 THEN NoReferences ELSE EmptyMarkup
    IN /\ \A showAll \in BOOLEAN, f \in Faults :
              BibliographyRaw(showAll, TRUE, f).markup = expected
       /\ (IsRender(step) /\ containers[step.by].showNone) =>
              /\ step.markup = expected
              /\ containers[step.by].html = Content(expected, {})

C4_Witness ==
    /\ step.op = "frame"
    /\ containers[step.by].showNone
    /\ Len(referenceIds) > 0
    /\ Len(citedIds) > 0
    /\ Len(doc) > 0
    /\ step.markup = EmptyMarkup

\* C5 (Spec): with an empty reference set every render, whatever showAll and
\* showNone, returns the "no references" sentinel, makes no engine call, builds
\* no engine and rewrites no anchor.
C5_NoReferencesSentinel ==
    Len(referenceIds) = 0 =>
        /\ \A showAll \in BOOLEAN, showNone \in BOOLEAN, f \in Faults :
               LET r == BibliographyRaw(showAll, showNone, f)
               IN r.markup = NoReferences /\ r.log = <<>> /\ r.rewritten = {}
        /\ IsRender(step) => step.markup = NoReferences
        /\ cachedOfflineEngine = NoEngine
        /\ cachedShowAllEngine = NoEngine
        /\ lastCitedKey = ""
        /\ \A k \in 1..Len(clusters) : clusters[k].html # "processed"

C5_Witness ==
    /\ Len(referenceIds) = 0
    /\ step.op = "frame"
    /\ step.markup = NoReferences
    /\ Len(citedIds) > 0
    /\ Len(doc) > 0

\* C6 (Spec): a cited-only render that finds a non-empty reference set and an
\* empty cited-id set makes no engine call, leaves both cached engines, the
\* last-built key and every anchor as they were, and (unless showNone) returns
\* the "no citations" indicator.
C6_NoCitationsShortCircuit ==
    [][(/\ IsRender(step')
        /\ ~containers'[step'.by].showAll
        /\ Len(referenceIds) > 0
        /\ Len(citedIds) = 0)
       => /\ \A f \in Faults :
                 BibliographyRaw(FALSE, containers'[step'.by].showNone, f).log = <<>>
          /\ cachedOfflineEngine' = cachedOfflineEngine
          /\ cachedShowAllEngine' = cachedShowAllEngine
          /\ lastCitedKey' = lastCitedKey
          /\ clusters' = clusters
          /\ ~containers'[step'.by].showNone => step'.markup = NoCitations]_vars

C6_Witness ==
    /\ IsRender(step)
    /\ ~containers[step.by].showAll
    /\ ~containers[step.by].showNone
    /\ Len(referenceIds) > 0
    /\ Len(citedIds) = 0
    /\ Len(doc) > 0
    /\ step.markup = NoCitations

\* C7 (Spec): a frame's update() whose markup equals the markup last applied
\* to the container does not assign the container's content.
C7_IdenticalMarkupNotWritten ==
    [][(step'.op = "frame" /\ step'.markup = containers[step'.by].last)
       => /\ ~step'.wrote
          /\ containers'[step'.by].html = containers[step'.by].html
          /\ containers'[step'.by].last = containers[step'.by].last]_vars

C7_Witness ==
    /\ step.op = "frame"
    /\ ~step.wrote
    /\ step.markup.kind = "bibliography"
    /\ step.markup = containers[step.by].last

\* C8 (SpecKey): the cited-mode key is the same for every order in which the
\* ids of the current cited set can have arrived, and it is the key a render
\* stores when it selects the cited-scoped engine.
C8_KeyDependsOnSetOnly ==
    \A p \in Orders(Range(citedIds)) :
        /\ CitedKey(p) = CitedKey(citedIds)
        /\ (IsRender(step) /\ step.markup.kind = "bibliography") => lastCitedKey = CitedKey(p)

C8_Witness ==
    /\ citedIds = <<"b", "a", "c">>
    /\ Len(clusters) = 2
    /\ IsRender(step)
    /\ lastCitedKey = "a|b|c"

\* C9 (SpecRefs): the reference table of a Refs object made by Refs.create
\* has one row per reference id, in ascending id order (the order of
\* localeCompare in some language).
C9_ReferenceListSortedById ==
    (refsReady /\ createPromise = "fulfilled") =>
        /\ Len(refObject) = Cardinality(RefIds(refList))
        /\ Range(refObject) = RefIds(refList)
        /\ \E caseFirst \in CaseFirsts : \A i, j \in 1..Len(refObject) :
               i < j => LocaleRank(refObject[i], caseFirst) < LocaleRank(refObject[j], caseFirst)

\* C10 (Spec): when bibliography() returns, the container holds the markup of
\* a render against the state at the call (cited ids of earlier cite calls
\* included) and no frame is scheduled for it.
C10_InitialRenderSynchronous ==
    [][step'.op = "bibliography"
       => LET ctr == containers'[step'.by]
          IN /\ ~ctr.raf
             /\ \E f \in Faults :
                    LET r == BibliographyRaw(ctr.showAll, ctr.showNone, f)
                    IN /\ step'.markup = r.markup
                       /\ ctr.last = r.markup
                       /\ ctr.html = PostProcess(r.markup)
             /\ (~ctr.showAll /\ step'.markup.kind = "bibliography")
                    => EntryIds(ctr.html.entries) = SortIds(citedIds)]_vars

C10_Witness ==
    /\ step.op = "bibliography"
    /\ ~containers[step.by].showAll
    /\ Len(citedIds) > 0
    /\ containers[step.by].html
           = PostProcess(Bibliography(MakeBibliography(SortIds(citedIds))))
    /\ containers[step.by].html.authors # {}
    /\ ~containers[step.by].raf

\* C11 (SpecCite): a call of Refs.cite, Refs.citep or Refs.citeeg returns an
\* element, a cluster anchor or the inline error marker, and does not throw,
\* whatever the arguments, the reference set and the engine's behaviour.
C11_CiteNeverThrows ==
    step.op = "cite" =>
        /\ ~step.threw
        /\ step.markup \in {ClusterAnchor, CitationError}

\* C12 (SpecCite): a cite call that returns the inline error marker leaves the
\* cited-id set, the last-built key and both cached engines as they were, and
\* dispatches no citation-changed event (no container's scheduler or anchor
\* list changes).
C12_FailedCiteChangesNothing ==
    [][(step'.op = "cite" /\ step'.markup = CitationError)
       => /\ citedIds' = citedIds
          /\ lastCitedKey' = lastCitedKey
          /\ cachedOfflineEngine' = cachedOfflineEngine
          /\ cachedShowAllEngine' = cachedShowAllEngine
          /\ clusters' = clusters
          /\ containers' = containers]_vars

\* a step of the render of bibliographyRaw throws: the engine construction,
\* the reprocessing of a cluster, or makeBibliography and the assembly
RenderFails(showAll, showNone, f) ==
    /\ ShortCircuit(showAll, showNone) = "render"
    /\ \/ SelectEngine(showAll, f).threw
       \/ ~showAll /\ ProcessThrows(ClusterSelector(doc, clusters, EngineId), f)
       \/ f.at = "bibliography"

\* C13 (Spec): a render in which a step throws returns the error banner
\* instead of throwing; the update() that ran it does not throw, leaves the
\* banner as the container's content whatever the container held, leaves no
\* frame scheduled, and a later citation-changed event schedules one again.
C13_RenderFailureBecomesBanner ==
    [][/\ \A showAll \in BOOLEAN, showNone \in BOOLEAN, f \in Faults :
              RenderFails(showAll, showNone, f)
                  <=> IsErrorBanner(BibliographyRaw(showAll, showNone, f).markup)
       /\ (IsRender(step') /\ IsErrorBanner(step'.markup))
              => LET ctr == containers'[step'.by]
                 IN /\ ~step'.threw
                    /\ ctr.last = step'.markup
                    /\ ctr.html = Content(step'.markup, {})
                    /\ ~ctr.raf
                    /\ ctr.listener => OnCitationUpdated(ctr).raf]_vars

C13_Witness ==
    /\ step.op = "frame"
    /\ step.markup = ErrorBanner("makeBibliography")
    /\ step.wrote
    /\ containers[step.by].html = Content(step.markup, {})
    /\ cachedOfflineEngine.built
    /\ lastCitedKey = CitedKey(citedIds)
    /\ ~containers[step.by].raf

\* C14 (SpecSessions): a bibliography of this session has a mutation observer
\* only on anchors stamped with this session's engine id, and its scheduler
\* goes from idle to pending only in a step in which this session's cite
\* returns an anchor: never in a step of the other session (its cite, the
\* insertion of one of its anchors, a change inside one of its anchors) nor
\* when the records of such a step are delivered.
C14_SessionsIsolated ==
    [][\A c \in 1..Len(containers) :
           /\ \A k \in containers'[c].observed : clusters'[k].engine = EngineId
           /\ (~containers[c].raf /\ containers'[c].raf)
                  => /\ Len(clusters') = Len(clusters) + 1
                     /\ clusters'[Len(clusters')].own]_vars

\* C15 (Spec): no step removes an id from the cited-id set: not a cite call
\* (successful or failing), a render, the insertion or removal of an anchor,
\* a change inside an anchor, container.dispose() or Refs.dispose().
C15_CitedIdsOnlyGrow ==
    [][/\ Range(citedIds) \subseteq Range(citedIds')
       /\ Len(doc') < Len(doc) => citedIds' = citedIds]_vars

C15_Witness ==
    /\ Len(citedIds) > 0
    /\ Len(clusters) > 0
    /\ clusters[1].html = "processed"
    /\ Range(clusters[1].items) \subseteq Range(citedIds)
    /\ doc = <<>>
    /\ step.op = "frame"
    /\ step.markup = Bibliography(MakeBibliography(SortIds(citedIds)))
    /\ disposeMark # -1

\* C16 (Spec): every id of the cited-id set is an id of the reference map.
C16_CitedIdsSubsetOfReferences ==
    Range(citedIds) \subseteq Range(referenceIds)

\* C17 (Spec): a cited-only render that reaches engine selection calls
\* makeOfflineEngine exactly when the sorted key of the cited-id set differs
\* from lastCitedKey, and otherwise uses the cached engine; when the selection
\* does not throw, the cached engine is one built over the sorted cited ids
\* and lastCitedKey is the key of the cited-id set.
C17_RebuildExactlyOnKeyChange ==
    [][/\ \A showNone \in BOOLEAN, f \in Faults :
              ShortCircuit(FALSE, showNone) = "render"
                  => LET r == BibliographyRaw(FALSE, showNone, f)
                         s == SelectEngine(FALSE, f)
                     IN /\ Call("makeOfflineEngine", 0) \in Range(r.log)
                               <=> CitedKey(citedIds) # lastCitedKey
                        /\ CitedKey(citedIds) = lastCitedKey
                               => ~s.threw /\ s.engine = cachedOfflineEngine
                        /\ ~s.threw
                               => /\ s.engine = Engine(SortIds(citedIds))
                                  /\ r.offline = Engine(SortIds(citedIds))
                                  /\ r.key = CitedKey(citedIds)
       /\ (/\ IsRender(step')
           /\ ~containers'[step'.by].showAll
           /\ step'.markup.kind = "bibliography")
              => /\ cachedOfflineEngine' = Engine(SortIds(citedIds'))
                 /\ lastCitedKey' = CitedKey(citedIds')
                 /\ CitedKey(citedIds) = lastCitedKey
                        => cachedOfflineEngine' = cachedOfflineEngine]_vars

C17_Witness ==
    /\ step.op = "frame"
    /\ ~containers[step.by].showAll
    /\ step.markup = Bibliography(MakeBibliography(<<"a", "b">>))
    /\ citedIds = <<"b", "a">>
    /\ lastCitedKey = "a|b"
    /\ cachedOfflineEngine = Engine(<<"a", "b">>)

\* the anchors a render passes to processCitationCluster, in call order
ProcessedOrder(log) ==
    LET calls == SelectSeq(log, LAMBDA c : c.op = "processCitationCluster")
    IN [i \in 1..Len(calls) |-> calls[i].arg]

\* C18 (SpecSweep): a cited-only render that reaches the sweep with at least
\* one anchor created passes every anchor created so far to
\* processCitationCluster, in creation order, and leaves every anchor with its
\* reprocessed content, wherever and whether the anchors are in the document.
C18_SweepEveryClusterInCreationOrder ==
    [][(/\ IsRender(step')
        /\ ~containers'[step'.by].showAll
        /\ step'.markup.kind = "bibliography"
        /\ Len(clusters) > 0)
       => /\ ProcessedOrder(BibliographyRaw(FALSE, FALSE, NoFault).log)
                 = [k \in 1..Len(clusters) |-> k]
          /\ \A k \in 1..Len(clusters) : clusters'[k].html = "processed"]_vars

\* C19 (Spec): after a render of either mode that returns a bibliography
\* whose entries include the references of an anchor that is in the document,
\* the anchor holds its reprocessed content, not the preview cite gave it.
C19_ReprocessedByNextPaint ==
    [][(IsRender(step') /\ step'.markup.kind = "bibliography")
       => \A k \in Range(doc') :
              (/\ clusters'[k].items # <<>>
               /\ Range(clusters'[k].items) \subseteq Range(EntryIds(step'.markup.entries)))
                  => clusters'[k].html = "processed"]_vars

\* C20 (Spec): each of the three triggers leaves a frame scheduled for a
\* bibliography that has not been disposed: (1) a cite of this session that
\* returns an anchor, (2) the delivery of a mutation record of an observed
\* anchor, (3) the delivery of the insertion record of a new anchor.
C20_TriggersSchedule ==
    [][\A c \in 1..Len(containers) :
           (containers[c].listener /\ containers'[c].listener /\ containers'[c].insObs)
               => /\ (/\ Len(clusters') = Len(clusters) + 1
                      /\ clusters'[Len(clusters')].engine = EngineId) => containers'[c].raf
                  /\ (containers[c].mutQueue /\ ~containers'[c].mutQueue)
                         => containers'[c].raf
                  /\ (containers[c].insQueue # {} /\ containers'[c].insQueue = {})
                         => containers'[c].raf]_vars

\* C21 (SpecDispose): a container never has more than one update callback
\* queued, and has one exactly while raf is set; a trigger (citation-changed
\* event or delivered mutation record) that arrives while one is queued
\* queues no second one; the callback, when it runs, is the only one and
\* leaves none queued and raf cleared.
C21_OneFrameCoalesced ==
    [][/\ \A c \in 1..Len(containers') :
              /\ containers'[c].frames \in {0, 1}
              /\ containers'[c].frames = 1 <=> containers'[c].raf
       /\ \A c \in 1..Len(containers) :
              /\ (containers[c].raf /\ ~(step'.op = "frame" /\ step'.by = c))
                     => containers'[c].raf /\ containers'[c].frames = containers[c].frames
              /\ (step'.op = "frame" /\ step'.by = c)
                     => /\ containers[c].frames = 1
                        /\ containers'[c].frames = 0
                        /\ ~containers'[c].raf]_vars

C21_Witness ==
    \E c \in 1..Len(containers) :
        /\ containers[c].last = NoCitations
        /\ Len(clusters) = 2
        /\ containers[c].observed = {1, 2}
        /\ clusters[1].html = "edited"
        /\ ~containers[c].mutQueue
        /\ containers[c].raf
        /\ containers[c].frames = 1

\* C22 (Spec): the records queued by a render's own rewrite of the anchors
\* schedule no render: when the microtask checkpoint that follows a frame's
\* update() delivers them, no container's scheduler changes.
C22_RenderDoesNotRescheduleItself ==
    [][(/\ step.op = "frame"
        /\ step'.op = "other"
        /\ ~NoMicrotask
        /\ NoMicrotask')
       => \A c \in 1..Len(containers) :
              /\ containers'[c].raf = containers[c].raf
              /\ containers'[c].frames = containers[c].frames]_vars

\* C23 (SpecFault): a cited-only render in which processCitationCluster
\* throws at the k-th attached anchor has called it for the first k anchors
\* and has assigned the content of no anchor: the render returns the error
\* banner, every anchor keeps the content it had, and no cluster observer
\* gets a record.
C23_SweepAllOrNothing ==
    [][/\ \A f \in ProcessFaults :
              LET tags == ClusterSelector(doc, clusters, EngineId)
                  r == BibliographyRaw(FALSE, FALSE, f)
              IN (ShortCircuit(FALSE, FALSE) = "render" /\ ProcessThrows(tags, f))
                     => /\ r.markup = ErrorBanner(ErrorMessage(f))
                        /\ ProcessedOrder(r.log) = SubSeq(tags, 1, f.k)
                        /\ r.clusters = clusters
                        /\ r.rewritten = {}
       /\ (IsRender(step') /\ IsErrorBanner(step'.markup))
              => /\ clusters' = clusters
                 /\ \A c \in 1..Len(containers) :
                        containers'[c].mutQueue = containers[c].mutQueue]_vars

C23_Witness ==
    /\ step.op = "frame"
    /\ step.markup = ErrorBanner("processCitationCluster 2")
    /\ Len(doc) = 2
    /\ clusters[1].html = "edited"
    /\ clusters[2].html = "preview"
    /\ containers[step.by].observed = {1, 2}
    /\ ~containers[step.by].mutQueue

====
